---- MODULE Spec2Model ----
(***************************************************************************)
(* Model of the blog platform's post library (lib/posts): the JSON post    *)
(* store, createPost / updatePost / deletePost, the bulk operations, the   *)
(* view, like and comment counters, publishScheduledPosts, the listing     *)
(* primitive getPosts, the relevance search searchPosts and the            *)
(* recommender getRelatedPosts; the interleaving of the store operations   *)
(* at their awaits; and the login-attempt counter of the auth utilities.   *)
(*                                                                         *)
(* Strings are sequences of one-character strings, so that lower-casing,   *)
(* substring tests, tokenisation and the regular-expression occurrence     *)
(* count are computed as the code computes them.  Dates are integers       *)
(* (days).  Scores are kept in hundredths of a point, because the          *)
(* popularity bonus viewCount / 100 is fractional.  An optional field of a *)
(* TypeScript object is an optional field of the record (Has).             *)
(***************************************************************************)
EXTENDS Integers, Sequences, FiniteSets, TLC

VARIABLES posts, now, nextId, edits, request, call, inflight, loginAttempts

vars == <<posts, now, nextId, edits, request, call, inflight, loginAttempts>>

----------------------------------------------------------------------------
(* Bounds of the model *)

MaxSeed == 2

MaxCreates == 1

(* calls that change stored posts (updates, bulk updates, counter         *)
(* increments) in one behaviour                                            *)
MaxEdits == 1

(* calls started in one behaviour of the interleaved store operations and *)
(* of the login-attempt counter                                            *)
MaxCalls == 3

----------------------------------------------------------------------------
(* JavaScript values *)

Null == -1

Has(r, k) == k \in DOMAIN r

Min(a, b) == IF a < b THEN a ELSE b

Range(s) == {s[i] : i \in 1..Len(s)}

Take(s, n) == SubSeq(s, 1, Min(n, Len(s)))

Slice(s, from, to) == SubSeq(s, from + 1, Min(to, Len(s)))

RECURSIVE SelectIdx(_, _, _)
SelectIdx(s, keep, i) ==
  IF i > Len(s) THEN <<>>
  ELSE (IF i \in keep THEN <<s[i]>> ELSE <<>>) \o SelectIdx(s, keep, i + 1)

----------------------------------------------------------------------------
(* String primitives *)

Lower(c) ==
  CASE c = "J" -> "j"
    [] c = "S" -> "s"
    [] c = "P" -> "p"
    [] c = "C" -> "c"
    [] c = "A" -> "a"
    [] c = "U" -> "u"
    [] OTHER -> c

ToLowerCase(s) == [i \in 1..Len(s) |-> Lower(s[i])]

IsSpace(c) == c = " "

MatchesAt(s, t, i) ==
  /\ i + Len(t) - 1 <= Len(s)
  /\ \A k \in 1..Len(t) : s[i + k - 1] = t[k]

Includes(s, t) == \E i \in 1..(Len(s) + 1) : MatchesAt(s, t, i)

StartsWith(s, t) == MatchesAt(s, t, 1)

RECURSIVE TrimStart(_)
TrimStart(s) ==
  IF s # <<>> /\ IsSpace(Head(s)) THEN TrimStart(Tail(s)) ELSE s

RECURSIVE TrimEnd(_)
TrimEnd(s) ==
  IF s # <<>> /\ IsSpace(s[Len(s)]) THEN TrimEnd(SubSeq(s, 1, Len(s) - 1)) ELSE s

Trim(s) == TrimEnd(TrimStart(s))

(* s.split(/\s+/): the pieces between maximal runs of white space *)
RECURSIVE SplitWs(_, _)
SplitWs(s, cur) ==
  IF s = <<>> THEN <<cur>>
  ELSE IF IsSpace(Head(s))
       THEN <<cur>> \o SplitWs(TrimStart(s), <<>>)
       ELSE SplitWs(Tail(s), Append(cur, Head(s)))

SearchTerms(query) ==
  LET parts == SplitWs(Trim(ToLowerCase(query)), <<>>)
  IN  SelectIdx(parts, {i \in 1..Len(parts) : Len(parts[i]) > 0}, 1)

----------------------------------------------------------------------------
(* new RegExp(term, 'g'): the pattern language of the modelled alphabet.   *)
(* A letter matches itself, '+' repeats the preceding letter one or more   *)
(* times, '(' opens a group.  The constructor throws a SyntaxError for a   *)
(* '+' with nothing to repeat and for a group that is never closed.        *)

IsQuantifier(c) == c = "+"

IsGroupOpen(c) == c = "("

RegExpValid(term) ==
  /\ \A i \in 1..Len(term) : ~IsGroupOpen(term[i])
  /\ \A i \in 1..Len(term) :
       IsQuantifier(term[i]) => (i > 1 /\ ~IsQuantifier(term[i - 1]))

RECURSIVE RegExpAtoms(_)
RegExpAtoms(term) ==
  IF term = <<>> THEN <<>>
  ELSE IF Len(term) >= 2 /\ IsQuantifier(term[2])
       THEN <<[ch |-> term[1], plus |-> TRUE]>> \o RegExpAtoms(SubSeq(term, 3, Len(term)))
       ELSE <<[ch |-> term[1], plus |-> FALSE]>> \o RegExpAtoms(Tail(term))

RECURSIVE RunLength(_, _, _)
RunLength(s, c, i) ==
  IF i <= Len(s) /\ s[i] = c THEN 1 + RunLength(s, c, i + 1) ELSE 0

(* end (exclusive) of the backtracking match of atoms k.. at position i, 0 if none *)
RECURSIVE MatchFrom(_, _, _, _)
RECURSIVE MatchPlus(_, _, _, _, _)
MatchFrom(atoms, k, s, i) ==
  IF k > Len(atoms) THEN i
  ELSE IF atoms[k].plus
       THEN MatchPlus(atoms, k, s, i, RunLength(s, atoms[k].ch, i))
       ELSE IF i <= Len(s) /\ s[i] = atoms[k].ch
            THEN MatchFrom(atoms, k + 1, s, i + 1)
            ELSE 0

MatchPlus(atoms, k, s, i, n) ==
  IF n < 1 THEN 0
  ELSE LET e == MatchFrom(atoms, k + 1, s, i + n)
       IN  IF e # 0 THEN e ELSE MatchPlus(atoms, k, s, i, n - 1)

(* (s.match(re) || []).length with the g flag: leftmost non-overlapping matches *)
RECURSIVE CountFrom(_, _, _)
CountFrom(atoms, s, i) ==
  IF i > Len(s) THEN 0
  ELSE LET e == MatchFrom(atoms, 1, s, i)
       IN  IF e = 0 THEN CountFrom(atoms, s, i + 1)
           ELSE 1 + CountFrom(atoms, s, e)

MatchCount(s, term) == CountFrom(RegExpAtoms(term), s, 1)

----------------------------------------------------------------------------
(* Results of a call: a returned list, or a thrown exception *)

Ok(list) == [ok |-> TRUE, list |-> list]

Thrown == [ok |-> FALSE, list |-> <<>>]

(* a.publishedAt || a.createdAt *)
EffectiveDate(post) ==
  IF post.publishedAt # Null THEN post.publishedAt ELSE post.createdAt

----------------------------------------------------------------------------
(* Array.prototype.sort with a comparator on two numeric keys: stable,     *)
(* ascending in k1, then ascending in k2.                                  *)


(* a comparator that forgets the date tie-break *)
KeyBefore_ScoreOnly(x, y) == x.k1 < y.k1

KeyBefore(x, y) == x.k1 < y.k1 \/ (x.k1 = y.k1 /\ x.k2 < y.k2)

RECURSIVE InsertKeyed(_, _)
InsertKeyed(sorted, x) ==
  IF sorted = <<>> THEN <<x>>
  ELSE IF KeyBefore(x, Head(sorted)) THEN <<x>> \o sorted
       ELSE <<Head(sorted)>> \o InsertKeyed(Tail(sorted), x)

RECURSIVE SortKeyed(_)
SortKeyed(s) ==
  IF s = <<>> THEN <<>>
  ELSE InsertKeyed(SortKeyed(SubSeq(s, 1, Len(s) - 1)), s[Len(s)])

Items(keyed) == [i \in 1..Len(keyed) |-> keyed[i].item]

----------------------------------------------------------------------------
(* getPosts(filters) *)

(* truthiness of an optional string (not '') and of an optional number (not 0) *)
TruthyStr(f, k) == Has(f, k) /\ f[k] # <<>>

TruthyNum(f, k) == Has(f, k) /\ f[k] # 0

Keep(list, idx) == SelectIdx(list, idx, 1)

Lacks(list, k) == \E i \in 1..Len(list) : ~Has(list[i], k)

TagIncludes(post, term) ==
  \E t \in 1..Len(post.tags) : Includes(ToLowerCase(post.tags[t]), term)

SearchFieldOrder == <<"title", "content", "excerpt", "tags", "category", "author">>

(* the short-circuit || chain of the full-text filter: hit, miss or throw *)
RECURSIVE SearchProbe(_, _, _)
SearchProbe(post, term, i) ==
  IF i > Len(SearchFieldOrder) THEN "miss"
  ELSE LET k == SearchFieldOrder[i]
       IN  IF ~Has(post, k) THEN "throw"
           ELSE IF (IF k = "tags" THEN TagIncludes(post, term)
                    ELSE Includes(ToLowerCase(post[k]), term))
                THEN "hit"
                ELSE SearchProbe(post, term, i + 1)

SortValue(post, sortBy) ==
  CASE sortBy = "publishedAt" -> EffectiveDate(post)
    [] sortBy = "updatedAt" -> post.updatedAt
    [] sortBy = "viewCount" -> post.viewCount
    [] sortBy = "likeCount" -> post.likeCount
    [] OTHER -> post.createdAt

SortPosts(list, f) ==
  LET sortBy == IF Has(f, "sortBy") THEN f.sortBy ELSE "createdAt"
      sortOrder == IF Has(f, "sortOrder") THEN f.sortOrder ELSE "desc"
      keyed == [i \in 1..Len(list) |->
                  [item |-> list[i],
                   k1 |-> IF sortOrder = "asc" THEN SortValue(list[i], sortBy)
                          ELSE 0 - SortValue(list[i], sortBy),
                   k2 |-> 0]]
  IN  Items(SortKeyed(keyed))

Paginate(list, f) ==
  LET offset == IF TruthyNum(f, "offset") THEN f.offset ELSE 0
      limit == IF TruthyNum(f, "limit") THEN f.limit ELSE Len(list)
  IN  Slice(list, offset, offset + limit)

ByPublished(r, f) ==
  IF Has(f, "published")
  THEN Ok(Keep(r.list, {i \in 1..Len(r.list) : r.list[i].published = f.published}))
  ELSE r

ByAuthor(r, f) ==
  IF ~r.ok \/ ~TruthyStr(f, "author") THEN r
  ELSE IF Lacks(r.list, "author") THEN Thrown
  ELSE Ok(Keep(r.list, {i \in 1..Len(r.list) :
             Includes(ToLowerCase(r.list[i].author), ToLowerCase(f.author))}))

ByCategory(r, f) ==
  IF ~r.ok \/ ~TruthyStr(f, "category") THEN r
  ELSE IF Lacks(r.list, "category") THEN Thrown
  ELSE Ok(Keep(r.list, {i \in 1..Len(r.list) :
             ToLowerCase(r.list[i].category) = ToLowerCase(f.category)}))

ByTag(r, f) ==
  IF ~r.ok \/ ~TruthyStr(f, "tag") THEN r
  ELSE IF Lacks(r.list, "tags") THEN Thrown
  ELSE Ok(Keep(r.list, {i \in 1..Len(r.list) :
             TagIncludes(r.list[i], ToLowerCase(f.tag))}))

ByStatus(r, f) ==
  IF ~r.ok \/ ~Has(f, "status") THEN r
  ELSE Ok(Keep(r.list, {i \in 1..Len(r.list) : r.list[i].status = f.status}))

BySeries(r, f) ==
  IF ~r.ok \/ ~TruthyStr(f, "series") THEN r
  ELSE Ok(Keep(r.list, {i \in 1..Len(r.list) :
             /\ Has(r.list[i], "series")
             /\ Includes(ToLowerCase(r.list[i].series), ToLowerCase(f.series))}))

ByDateFrom(r, f) ==
  IF ~r.ok \/ ~Has(f, "dateFrom") THEN r
  ELSE Ok(Keep(r.list, {i \in 1..Len(r.list) : r.list[i].createdAt >= f.dateFrom}))

ByDateTo(r, f) ==
  IF ~r.ok \/ ~Has(f, "dateTo") THEN r
  ELSE Ok(Keep(r.list, {i \in 1..Len(r.list) : r.list[i].createdAt <= f.dateTo}))

ByMinViews(r, f) ==
  IF ~r.ok \/ ~Has(f, "minViews") THEN r
  ELSE Ok(Keep(r.list, {i \in 1..Len(r.list) : r.list[i].viewCount >= f.minViews}))

ByExcludeIds(r, f) ==
  IF ~r.ok \/ ~Has(f, "excludeIds") THEN r
  ELSE IF Len(f.excludeIds) = 0 THEN r
  ELSE Ok(Keep(r.list, {i \in 1..Len(r.list) : r.list[i].id \notin Range(f.excludeIds)}))

BySearch(r, f) ==
  IF ~r.ok \/ ~TruthyStr(f, "search") THEN r
  ELSE IF \E i \in 1..Len(r.list) :
            SearchProbe(r.list[i], ToLowerCase(f.search), 1) = "throw"
  THEN Thrown
  ELSE Ok(Keep(r.list, {i \in 1..Len(r.list) :
             SearchProbe(r.list[i], ToLowerCase(f.search), 1) = "hit"}))

SortAndPaginate(r, f) ==
  IF ~r.ok THEN r ELSE Ok(Paginate(SortPosts(r.list, f), f))

GetPosts(all, f) ==
  SortAndPaginate(
    BySearch(ByExcludeIds(ByMinViews(ByDateTo(ByDateFrom(BySeries(ByStatus(
      ByTag(ByCategory(ByAuthor(ByPublished(Ok(all), f), f), f), f),
      f), f), f), f), f), f), f), f)

----------------------------------------------------------------------------
(* searchPosts(query, filters): scores in hundredths of a point *)

(* title tiers that add up instead of stopping at the first match *)
TitlePoints_Additive(post, term) ==
  LET titleLower == ToLowerCase(post.title)
  IN  (IF titleLower = term THEN 100 ELSE 0)
      + (IF StartsWith(titleLower, term) THEN 50 ELSE 0)
      + (IF Includes(titleLower, term) THEN 30 ELSE 0)

TitlePoints(post, term) ==
  LET titleLower == ToLowerCase(post.title)
  IN  IF titleLower = term THEN 100
      ELSE IF StartsWith(titleLower, term) THEN 50
      ELSE IF Includes(titleLower, term) THEN 30
      ELSE 0

TagPoints(post, term) ==
  Cardinality({t \in 1..Len(post.tags) : Includes(ToLowerCase(post.tags[t]), term)}) * 25

CategoryPoints(post, term) ==
  LET categoryLower == ToLowerCase(post.category)
  IN  IF categoryLower = term THEN 20
      ELSE IF Includes(categoryLower, term) THEN 10
      ELSE 0

AuthorPoints(post, term) ==
  IF Includes(ToLowerCase(post.author), term) THEN 15 ELSE 0

ExcerptPoints(post, term) ==
  LET excerptLower == ToLowerCase(post.excerpt)
  IN  IF Includes(excerptLower, term)
      THEN 10 + MatchCount(excerptLower, term) * 2
      ELSE 0

ContentPoints(post, term) ==
  LET contentLower == ToLowerCase(post.content)
  IN  IF Includes(contentLower, term)
      THEN 5 + Min(MatchCount(contentLower, term), 10)
      ELSE 0

TermPoints(post, term) ==
  TitlePoints(post, term) + TagPoints(post, term) + CategoryPoints(post, term)
    + AuthorPoints(post, term) + ExcerptPoints(post, term) + ContentPoints(post, term)

RECURSIVE TermsPoints(_, _, _)
TermsPoints(post, terms, i) ==
  IF i > Len(terms) THEN 0
  ELSE TermPoints(post, terms[i]) + TermsPoints(post, terms, i + 1)

RecencyBonus(post, t) ==
  IF t - EffectiveDate(post) < 30 THEN 500 ELSE 0

PopularityBonus(post) ==
  IF post.viewCount > 100 THEN Min(post.viewCount, 500) ELSE 0

(* a score that adds the two bonuses once for every query token *)
SearchScore_BonusPerTerm(post, terms, t) ==
  TermsPoints(post, terms, 1) * 100
    + Len(terms) * (RecencyBonus(post, t) + PopularityBonus(post))

SearchScore(post, terms, t) ==
  TermsPoints(post, terms, 1) * 100 + RecencyBonus(post, t) + PopularityBonus(post)

ScoredFields == {"title", "excerpt", "content", "category", "author", "tags"}

(* post.title.toLowerCase() ... on a record without the field: TypeError *)
FieldsThrow(post) == \E k \in ScoredFields : ~Has(post, k)

(* new RegExp(term, 'g') is built only when the field contains the term *)
RegExpThrows(post, term) ==
  /\ ~RegExpValid(term)
  /\ \/ Includes(ToLowerCase(post.excerpt), term)
     \/ Includes(ToLowerCase(post.content), term)

ScoreThrows(post, terms) ==
  \/ FieldsThrow(post)
  \/ \E i \in 1..Len(terms) : RegExpThrows(post, terms[i])

WithoutSearch(f) == [k \in DOMAIN f \ {"search"} |-> f[k]]


(* a ranking that forgets the zero-score filter *)
Relevant_KeepAll(scored) == scored

Relevant(scored) == Keep(scored, {i \in 1..Len(scored) : scored[i].k1 < 0})

RankPosts(list, terms, t) ==
  LET scored == [i \in 1..Len(list) |->
                   [item |-> list[i],
                    k1 |-> 0 - SearchScore(list[i], terms, t),
                    k2 |-> 0 - EffectiveDate(list[i])]]
  IN  Items(SortKeyed(Relevant(scored)))

ApplyLimit(ranked, f) ==
  IF TruthyNum(f, "limit") THEN Take(ranked, f.limit) ELSE ranked

Candidates(all, f) == GetPosts(all, WithoutSearch(f))


(* a search that scores and filters even when the query has no token *)
SearchPosts_AlwaysScore(all, t, query, f) ==
  LET terms == SearchTerms(query)
      got == Candidates(all, f)
  IN  IF ~got.ok THEN Thrown
      ELSE IF \E i \in 1..Len(got.list) : ScoreThrows(got.list[i], terms)
      THEN Thrown
      ELSE Ok(ApplyLimit(RankPosts(got.list, terms, t), f))

SearchPosts(all, t, query, f) ==
  IF query = <<>> \/ Len(Trim(query)) = 0 THEN GetPosts(all, f)
  ELSE LET terms == SearchTerms(query)
       IN  IF Len(terms) = 0 THEN GetPosts(all, f)
           ELSE LET got == Candidates(all, f)
                IN  IF ~got.ok THEN Thrown
                    ELSE IF \E i \in 1..Len(got.list) : ScoreThrows(got.list[i], terms)
                    THEN Thrown
                    ELSE Ok(ApplyLimit(RankPosts(got.list, terms, t), f))

----------------------------------------------------------------------------
(* getPostById, validateRelatedPosts, getRelatedPosts(postId, limit) *)

GetPostById(all, id) ==
  LET idx == {i \in 1..Len(all) : all[i].id = id}
  IN  IF idx = {} THEN <<>> ELSE <<all[CHOOSE i \in idx : \A j \in idx : i <= j]>>

ValidRelated(all, ids) ==
  Keep(ids, {i \in 1..Len(ids) : \E j \in 1..Len(all) : all[j].id = ids[i]})

SameField(a, b, k) ==
  IF Has(a, k) /\ Has(b, k) THEN a[k] = b[k] ELSE ~Has(a, k) /\ ~Has(b, k)

SharedTags(cand, post) ==
  Cardinality({t \in 1..Len(cand.tags) : cand.tags[t] \in Range(post.tags)})

SimilarityScore(cand, post, t) ==
  (IF SameField(cand, post, "category") THEN 3000 ELSE 0)
  + SharedTags(cand, post) * 2000
  + (IF SameField(cand, post, "author") THEN 1000 ELSE 0)
  + (IF Has(cand, "series") /\ Has(post, "series")
        /\ cand.series = post.series /\ cand.series # <<>> THEN 2500 ELSE 0)
  + (IF t - EffectiveDate(cand) < 30 THEN 500 ELSE 0)
  + (IF cand.viewCount > 100 THEN Min(cand.viewCount, 1000) ELSE 0)

(* relatedPost.tags.filter(tag => post.tags.includes(tag)) on missing tags *)
SimilarityThrows(cand, post) ==
  \/ ~Has(cand, "tags")
  \/ Len(cand.tags) > 0 /\ ~Has(post, "tags")

CuratedPhase(all, post, limit) ==
  LET valid == IF Has(post, "relatedPosts") /\ Len(post.relatedPosts) > 0
               THEN ValidRelated(all, post.relatedPosts) ELSE <<>>
      manual == GetPosts(all, [published |-> TRUE, excludeIds |-> <<post.id>>]).list
  IN  [entered |-> Len(valid) > 0,
       filtered |-> IF Len(valid) > 0
                    THEN Take(Keep(manual, {i \in 1..Len(manual) :
                                              manual[i].id \in Range(valid)}), limit)
                    ELSE <<>>]


(* an automatic phase that fetches its pool without excluding the reference post *)
AutomaticPhase_WithSelf(all, post, t, limit) ==
  LET pool == GetPosts(all, [published |-> TRUE, limit |-> limit * 3]).list
      scored == [i \in 1..Len(pool) |->
                   [item |-> pool[i],
                    k1 |-> 0 - SimilarityScore(pool[i], post, t),
                    k2 |-> 0]]
  IN  IF \E i \in 1..Len(pool) : SimilarityThrows(pool[i], post) THEN Thrown
      ELSE Ok(Take(Items(SortKeyed(scored)), limit))

(* an automatic phase that forgets to cut the scored pool down to limit *)
AutomaticPhase_NoSlice(all, post, t, limit) ==
  LET pool == GetPosts(all, [published |-> TRUE, excludeIds |-> <<post.id>>,
                             limit |-> limit * 3]).list
      scored == [i \in 1..Len(pool) |->
                   [item |-> pool[i],
                    k1 |-> 0 - SimilarityScore(pool[i], post, t),
                    k2 |-> 0]]
  IN  IF \E i \in 1..Len(pool) : SimilarityThrows(pool[i], post) THEN Thrown
      ELSE Ok(Items(SortKeyed(scored)))

AutomaticPhase(all, post, t, limit) ==
  LET pool == GetPosts(all, [published |-> TRUE, excludeIds |-> <<post.id>>,
                             limit |-> limit * 3]).list
      scored == [i \in 1..Len(pool) |->
                   [item |-> pool[i],
                    k1 |-> 0 - SimilarityScore(pool[i], post, t),
                    k2 |-> 0]]
  IN  IF \E i \in 1..Len(pool) : SimilarityThrows(pool[i], post) THEN Thrown
      ELSE Ok(Take(Items(SortKeyed(scored)), limit))

(* a recommender that ignores the curated list *)
RelatedResult_AlwaysAutomatic(all, post, t, limit, curated) ==
  AutomaticPhase(all, post, t, limit)

RelatedResult(all, post, t, limit, curated) ==
  IF curated.entered /\ Len(curated.filtered) >= limit THEN Ok(curated.filtered)
  ELSE AutomaticPhase(all, post, t, limit - Len(curated.filtered))

(* a recommender without the `if (!post) return []` guard *)
GetRelatedPosts_NoGuard(all, t, postId, limit) ==
  LET found == GetPostById(all, postId)
  IN  IF found = <<>> THEN Thrown
      ELSE RelatedResult(all, found[1], t, limit, CuratedPhase(all, found[1], limit))

GetRelatedPosts(all, t, postId, limit) ==
  LET found == GetPostById(all, postId)
  IN  IF found = <<>> THEN Ok(<<>>)
      ELSE RelatedResult(all, found[1], t, limit, CuratedPhase(all, found[1], limit))

----------------------------------------------------------------------------
(* generateSlug, ensureUniqueSlug *)

IsSlugChar(c) == c \notin {"+", "("}

RECURSIVE HyphenateSpaces(_)
HyphenateSpaces(s) ==
  IF s = <<>> THEN <<>>
  ELSE IF IsSpace(Head(s)) THEN <<"-">> \o HyphenateSpaces(TrimStart(s))
       ELSE <<Head(s)>> \o HyphenateSpaces(Tail(s))

RECURSIVE CollapseHyphens(_)
CollapseHyphens(s) ==
  IF Len(s) < 2 THEN s
  ELSE IF s[1] = "-" /\ s[2] = "-" THEN CollapseHyphens(Tail(s))
       ELSE <<Head(s)>> \o CollapseHyphens(Tail(s))

RECURSIVE StripHyphens(_)
StripHyphens(s) ==
  IF s # <<>> /\ Head(s) = "-" THEN StripHyphens(Tail(s))
  ELSE IF s # <<>> /\ s[Len(s)] = "-" THEN StripHyphens(SubSeq(s, 1, Len(s) - 1))
       ELSE s

GenerateSlug(title) ==
  LET lower == ToLowerCase(title)
      kept == Keep(lower, {i \in 1..Len(lower) : IsSlugChar(lower[i])})
  IN  Trim(StripHyphens(CollapseHyphens(HyphenateSpaces(kept))))

SlugTaken(all, slug, excludeId) ==
  \E i \in 1..Len(all) : all[i].slug = slug /\ all[i].id # excludeId

RECURSIVE NextFreeSlug(_, _, _, _, _)
NextFreeSlug(all, baseSlug, slug, counter, excludeId) ==
  IF SlugTaken(all, slug, excludeId)
  THEN NextFreeSlug(all, baseSlug, baseSlug \o <<"-", ToString(counter)>>,
                    counter + 1, excludeId)
  ELSE slug

EnsureUniqueSlug(all, baseSlug, excludeId) ==
  NextFreeSlug(all, baseSlug, baseSlug, 1, excludeId)

----------------------------------------------------------------------------
(* createPost(data): the record appended to the store.  A Date written by  *)
(* JSON.stringify and not revived by readPosts (scheduledPublishAt) is     *)
(* kept as the instant its ISO string denotes.                             *)

Uncategorized == <<"U", "n", "c", "a", "t", "e", "g", "o", "r", "i", "z", "e", "d">>

HasDate(r, k) == Has(r, k) /\ r[k] # Null

ShouldPublish(data, t) ==
  /\ Has(data, "status") /\ data.status = "published"
  /\ (~HasDate(data, "scheduledPublishAt") \/ data.scheduledPublishAt <= t)

NewPost(all, data, t, id) ==
  LET keys == {"id", "title", "slug", "content", "excerpt", "author", "published",
               "publishedAt", "createdAt", "updatedAt", "tags", "category", "status",
               "lastViewedAt", "viewCount", "likeCount", "commentCount", "relatedPosts"}
              \cup ({"scheduledPublishAt", "series"} \cap DOMAIN data)
  IN  [k \in keys |->
         CASE k = "id" -> id
           [] k = "slug" -> EnsureUniqueSlug(all, GenerateSlug(data.title), 0)
           [] k = "published" -> ShouldPublish(data, t)
           [] k = "publishedAt" ->
                IF ShouldPublish(data, t)
                THEN (IF HasDate(data, "scheduledPublishAt")
                      THEN data.scheduledPublishAt ELSE t)
                ELSE Null
           [] k \in {"createdAt", "updatedAt"} -> t
           [] k = "tags" -> IF Has(data, "tags") THEN data.tags ELSE <<>>
           [] k = "category" ->
                IF TruthyStr(data, "category") THEN data.category ELSE Uncategorized
           [] k = "status" -> IF Has(data, "status") THEN data.status ELSE "draft"
           [] k = "lastViewedAt" -> Null
           [] k \in {"viewCount", "likeCount", "commentCount"} -> 0
           [] k = "relatedPosts" ->
                IF Has(data, "relatedPosts") THEN data.relatedPosts ELSE <<>>
           [] OTHER -> data[k]]

----------------------------------------------------------------------------
(* updatePost(id, data), bulkUpdatePosts, bulkPublishPosts *)

NewStatus(existingPost, data) ==
  IF Has(data, "status") THEN data.status ELSE existingPost.status

(* data.scheduledPublishAt <= now && newStatus === 'published' *)
ScheduledDue(existingPost, data, t) ==
  /\ HasDate(data, "scheduledPublishAt")
  /\ data.scheduledPublishAt <= t
  /\ NewStatus(existingPost, data) = "published"

NewPublished(existingPost, data, t) ==
  IF NewStatus(existingPost, data) = "published" \/ ScheduledDue(existingPost, data, t)
  THEN TRUE
  ELSE IF Has(data, "published") THEN data.published ELSE existingPost.published

NewPublishedAt(existingPost, data, t) ==
  IF ScheduledDue(existingPost, data, t) THEN data.scheduledPublishAt
  ELSE IF NewStatus(existingPost, data) = "published" /\ existingPost.publishedAt = Null
  THEN t
  ELSE existingPost.publishedAt

(* an update that writes a post back with its counters cleared *)
UpdatedPost_ResetsCounts(all, existingPost, data, t) ==
  [k \in DOMAIN existingPost \cup DOMAIN data |->
     CASE k = "updatedAt" -> t
       [] k = "slug" ->
            IF TruthyStr(data, "title")
            THEN EnsureUniqueSlug(all, GenerateSlug(data.title), existingPost.id)
            ELSE existingPost.slug
       [] k = "published" -> NewPublished(existingPost, data, t)
       [] k = "publishedAt" -> NewPublishedAt(existingPost, data, t)
       [] k = "status" -> NewStatus(existingPost, data)
       [] k = "lastViewedAt" -> existingPost[k]
       [] k \in {"viewCount", "likeCount", "commentCount"} -> 0
       [] k \in DOMAIN data -> data[k]
       [] OTHER -> existingPost[k]]

(* an update that takes the slug of the new title without the uniqueness loop *)
UpdatedPost_RawSlug(all, existingPost, data, t) ==
  [k \in DOMAIN existingPost \cup DOMAIN data |->
     CASE k = "updatedAt" -> t
       [] k = "slug" ->
            IF TruthyStr(data, "title") THEN GenerateSlug(data.title)
            ELSE existingPost.slug
       [] k = "published" -> NewPublished(existingPost, data, t)
       [] k = "publishedAt" -> NewPublishedAt(existingPost, data, t)
       [] k = "status" -> NewStatus(existingPost, data)
       [] k \in {"lastViewedAt", "viewCount", "likeCount", "commentCount"} ->
            existingPost[k]
       [] k \in DOMAIN data -> data[k]
       [] OTHER -> existingPost[k]]

UpdatedPost(all, existingPost, data, t) ==
  [k \in DOMAIN existingPost \cup DOMAIN data |->
     CASE k = "updatedAt" -> t
       [] k = "slug" ->
            IF TruthyStr(data, "title")
            THEN EnsureUniqueSlug(all, GenerateSlug(data.title), existingPost.id)
            ELSE existingPost.slug
       [] k = "published" -> NewPublished(existingPost, data, t)
       [] k = "publishedAt" -> NewPublishedAt(existingPost, data, t)
       [] k = "status" -> NewStatus(existingPost, data)
       [] k \in {"lastViewedAt", "viewCount", "likeCount", "commentCount"} ->
            existingPost[k]
       [] k \in DOMAIN data -> data[k]
       [] OTHER -> existingPost[k]]

FindIndex(all, id) ==
  LET idx == {i \in 1..Len(all) : all[i].id = id}
  IN  IF idx = {} THEN 0 ELSE CHOOSE i \in idx : \A j \in idx : i <= j

(* the store that updatePost leaves: untouched when the id is unknown *)
UpdatePostIn(all, id, data, t) ==
  IF FindIndex(all, id) = 0 THEN all
  ELSE [all EXCEPT ![FindIndex(all, id)] =
                     UpdatedPost(all, all[FindIndex(all, id)], data, t)]

(* the loop of bulkUpdatePosts over the posts read at its start; every     *)
(* updatePost reads the store again.                                       *)
RECURSIVE BulkUpdateFrom(_, _, _, _, _, _)
BulkUpdateFrom(snapshot, i, all, ids, updates, t) ==
  IF i > Len(snapshot) THEN [store |-> all, updated |-> 0]
  ELSE IF snapshot[i].id \in Range(ids)
  THEN LET rest == BulkUpdateFrom(snapshot, i + 1,
                                  UpdatePostIn(all, snapshot[i].id, updates, t),
                                  ids, updates, t)
       IN  [store |-> rest.store,
            updated |-> rest.updated
                          + (IF FindIndex(all, snapshot[i].id) = 0 THEN 0 ELSE 1)]
  ELSE BulkUpdateFrom(snapshot, i + 1, all, ids, updates, t)

BulkUpdate(all, ids, updates, t) == BulkUpdateFrom(all, 1, all, ids, updates, t)

PublishUpdate(publish) ==
  [published |-> publish, status |-> IF publish THEN "published" ELSE "draft"]

----------------------------------------------------------------------------
(* publishScheduledPosts().  readPosts revives createdAt, updatedAt and    *)
(* publishedAt only, so a stored scheduledPublishAt is the ISO string that *)
(* JSON.stringify wrote: in `post.scheduledPublishAt <= now` the string    *)
(* converts to NaN and the comparison is false.                            *)

IsoStringAtMost(iso, t) == FALSE

ScheduleDue(post, t) ==
  /\ post.status = "published"
  /\ ~post.published
  /\ HasDate(post, "scheduledPublishAt")
  /\ IsoStringAtMost(post.scheduledPublishAt, t)

PublishDue(all, t) ==
  [i \in 1..Len(all) |->
     IF ScheduleDue(all[i], t)
     THEN [all[i] EXCEPT !.published = TRUE,
                         !.publishedAt = all[i].scheduledPublishAt,
                         !.updatedAt = t]
     ELSE all[i]]

----------------------------------------------------------------------------
(* The posts file at start-up: records written by earlier runs.  Seed 4 is *)
(* a record without an excerpt, as in the fixtures of posts.test.ts.       *)

SeedBase(id, title, content, author, category, tags, created, views) ==
  [id |-> id, title |-> title, slug |-> GenerateSlug(title), content |-> content,
   author |-> author, published |-> TRUE, publishedAt |-> created,
   createdAt |-> created, updatedAt |-> created, tags |-> tags,
   category |-> category, status |-> "published", lastViewedAt |-> Null,
   viewCount |-> views, likeCount |-> 0, commentCount |-> 0]

WithField(r, key, val) ==
  [k \in DOMAIN r \cup {key} |-> IF k = key THEN val ELSE r[k]]

Unpublished(r) ==
  [r EXCEPT !.published = FALSE, !.publishedAt = Null, !.status = "draft"]

Seed(id) ==
  CASE id = 1 ->
         WithField(WithField(
           SeedBase(1, <<"J", "S">>, <<"j", "s", " ", "j", "s">>, <<"a">>, <<"c">>,
                    << <<"a">> >>, 1, 150),
           "excerpt", <<"j", "s">>), "relatedPosts", <<2, 9>>)
    [] id = 2 ->
         WithField(WithField(
           SeedBase(2, <<"P", "y">>, <<"p", "y">>, <<"p">>, <<"c">>,
                    << <<"p", "y">> >>, 30, 150),
           "excerpt", <<"p", "y">>), "relatedPosts", <<>>)
    [] id = 3 ->
         WithField(WithField(
           SeedBase(3, <<"C">>, <<"j", "s", " ", "c", "+", "+", " ", "(">>, <<"a">>,
                    <<"c">>, << <<"j", "s">>, <<"c">> >>, 1, 700),
           "excerpt", <<"c", "+", "+">>), "relatedPosts", <<1>>)
    [] id = 4 ->
         WithField(
           Unpublished(SeedBase(4, <<"J", "S", " ", "a">>, <<"a">>, <<"p">>, <<"a">>,
                                << <<"j", "s">> >>, 30, 0)),
           "relatedPosts", <<>>)
    [] OTHER ->
         WithField(WithField(WithField(
           SeedBase(5, <<"a">>, <<"a">>, <<"y">>, <<"y">>, <<>>, 1, 50),
           "excerpt", <<"a">>), "relatedPosts", <<1, 2>>), "series", <<"s">>)

SeedIds == 1..5

SeedStores ==
  {st \in UNION {[1..n -> SeedIds] : n \in 0..MaxSeed} :
     \A i, j \in 1..Len(st) : i # j => st[i] # st[j]}

StoreOf(st) == [i \in 1..Len(st) |-> Seed(st[i])]

----------------------------------------------------------------------------
(* Inputs of the calls *)

Instants == {31, 61}

Queries ==
  { <<>>, <<" ">>, <<"J", "S", " ">>, <<"p", "y", " ", "j", "s">>,
    <<"c", "+", "+">>, <<"c", "+">>, <<"c">>, <<"(">> }

Filters ==
  { [published |-> TRUE],
    [limit |-> 1],
    [limit |-> 2, published |-> TRUE, sortBy |-> "updatedAt", sortOrder |-> "desc"],
    [offset |-> 1, status |-> "published"],
    [search |-> <<"p", "y">>, sortBy |-> "viewCount", sortOrder |-> "asc", limit |-> 0],
    [category |-> <<"C">>, sortBy |-> "publishedAt", dateFrom |-> 1, dateTo |-> 30],
    [tag |-> <<"j">>, author |-> <<"A">>, minViews |-> 100, sortBy |-> "likeCount"],
    [series |-> <<"S">>, excludeIds |-> <<1>>] }

CreateRequests ==
  { [title |-> <<"J", "S">>, content |-> <<"j", "s">>, excerpt |-> <<"a">>,
     author |-> <<"a">>, status |-> "published", tags |-> << <<"j", "s">> >>,
     category |-> <<"c">>, relatedPosts |-> <<1, 4, 6>>],
    [title |-> <<"P", "y", " ", "(", "a">>, content |-> <<"p", "y">>,
     excerpt |-> <<"j", "s", " ", "j", "s">>, author |-> <<"p">>,
     published |-> TRUE, series |-> <<"s">>],
    [title |-> <<"a">>, content |-> <<"a">>, excerpt |-> <<"a">>, author |-> <<"y">>,
     status |-> "published", scheduledPublishAt |-> 61, category |-> <<"a">>] }

UpdateRequests ==
  { [published |-> TRUE],
    [title |-> <<"J", "S">>, category |-> <<"c">>],
    [status |-> "published", scheduledPublishAt |-> 61],
    [title |-> <<"a">>, status |-> "archived", published |-> FALSE,
     scheduledPublishAt |-> Null] }

BulkIds == { <<4, 1>>, <<2, 6, 9>> }

(* the start-up records that the life-cycle runs edit: a published post    *)
(* and a draft whose title starts with the title of the first              *)
EditedSeedIds == {1, 4}

(* the callers whose store operations may overlap *)
Procs == {1, 2}

Idle == [op |-> "idle"]

(* the keys of the loginAttempts map and the value of a missing entry *)
Identifiers == {"a", "b"}

NoRecord == [count |-> 0, lockoutUntil |-> Null]

FirstNewId == Cardinality(SeedIds) + 1

PostIds == 1..(Cardinality(SeedIds) + MaxCreates)

Limits == 1..3

----------------------------------------------------------------------------------------------------------------------------------------------
(* The state machine: the posts file, the clock, the id source, the read   *)
(* request under study (a search or a recommendation, fixed at the start   *)
(* of a behaviour) and the last call with its result.                      *)

InitStore ==
  /\ posts \in {StoreOf(st) : st \in SeedStores}
  /\ now = 31
  /\ nextId = FirstNewId
  /\ edits = 0
  /\ call = [op |-> "none"]
  /\ inflight = [p \in Procs |-> Idle]
  /\ loginAttempts = [identifier \in Identifiers |-> NoRecord]

Init ==
  /\ InitStore
  /\ request = [op |-> "none"]

InitSearch ==
  /\ InitStore
  /\ request \in {[op |-> "searchPosts", query |-> q, filters |-> f] :
                    q \in Queries, f \in Filters}

InitRelated ==
  /\ InitStore
  /\ request \in {[op |-> "getRelatedPosts", postId |-> id, limit |-> limit] :
                    id \in PostIds, limit \in Limits}

Tick ==
  /\ \E t \in Instants : t > now /\ now' = t
  /\ call' = [op |-> "tick"]
  /\ UNCHANGED <<posts, nextId, edits, request, inflight, loginAttempts>>

CreatePost ==
  \E data \in CreateRequests :
    /\ nextId < FirstNewId + MaxCreates
    /\ posts' = Append(posts, NewPost(posts, data, now, nextId))
    /\ nextId' = nextId + 1
    /\ call' = [op |-> "createPost", id |-> nextId]
    /\ UNCHANGED <<now, edits, request, inflight, loginAttempts>>

DeletePost ==
  \E id \in PostIds :
    LET filteredPosts == Keep(posts, {i \in 1..Len(posts) : posts[i].id # id})
    IN  /\ posts' = filteredPosts
        /\ call' = [op |-> "deletePost", id |-> id,
                    ret |-> Len(filteredPosts) # Len(posts)]
        /\ UNCHANGED <<now, nextId, edits, request, inflight, loginAttempts>>

IncrementViewCount ==
  \E id \in PostIds :
    /\ edits < MaxEdits
    /\ posts' = IF FindIndex(posts, id) = 0 THEN posts
                ELSE [posts EXCEPT ![FindIndex(posts, id)].viewCount = @ + 1,
                                   ![FindIndex(posts, id)].lastViewedAt = now]
    /\ edits' = edits + 1
    /\ call' = [op |-> "incrementViewCount", id |-> id,
                ret |-> FindIndex(posts, id) # 0]
    /\ UNCHANGED <<now, nextId, request, inflight, loginAttempts>>

(* a like that lands on the first post when the id is unknown *)
IncrementLikeCount_FallsBackToFirst ==
  \E id \in PostIds :
    /\ edits < MaxEdits
    /\ posts' = IF posts = <<>> THEN posts
                ELSE IF FindIndex(posts, id) = 0
                THEN [posts EXCEPT ![1].likeCount = @ + 1]
                ELSE [posts EXCEPT ![FindIndex(posts, id)].likeCount = @ + 1]
    /\ edits' = edits + 1
    /\ call' = [op |-> "incrementLikeCount", id |-> id,
                ret |-> FindIndex(posts, id) # 0]
    /\ UNCHANGED <<now, nextId, request, inflight, loginAttempts>>

IncrementLikeCount ==
  \E id \in PostIds :
    /\ edits < MaxEdits
    /\ posts' = IF FindIndex(posts, id) = 0 THEN posts
                ELSE [posts EXCEPT ![FindIndex(posts, id)].likeCount = @ + 1]
    /\ edits' = edits + 1
    /\ call' = [op |-> "incrementLikeCount", id |-> id,
                ret |-> FindIndex(posts, id) # 0]
    /\ UNCHANGED <<now, nextId, request, inflight, loginAttempts>>

IncrementCommentCount ==
  \E id \in PostIds :
    /\ edits < MaxEdits
    /\ posts' = IF FindIndex(posts, id) = 0 THEN posts
                ELSE [posts EXCEPT ![FindIndex(posts, id)].commentCount = @ + 1]
    /\ edits' = edits + 1
    /\ call' = [op |-> "incrementCommentCount", id |-> id,
                ret |-> FindIndex(posts, id) # 0]
    /\ UNCHANGED <<now, nextId, request, inflight, loginAttempts>>

BulkDeletePost ==
  \E ids \in BulkIds :
    LET kept == {i \in 1..Len(posts) : posts[i].id \notin Range(ids)}
        filteredPosts == Keep(posts, kept)
    IN  /\ posts' = filteredPosts
        /\ call' = [op |-> "bulkDeletePost", ids |-> ids,
                    ret |-> [deleted |-> Len(posts) - Len(filteredPosts),
                             failed |-> [i \in 1..Len(filteredPosts) |->
                                           filteredPosts[i].id]]]
        /\ UNCHANGED <<now, nextId, edits, request, inflight, loginAttempts>>

UpdatePost ==
  \E id \in PostIds, data \in UpdateRequests :
    /\ edits < MaxEdits
    /\ posts' = UpdatePostIn(posts, id, data, now)
    /\ edits' = edits + 1
    /\ call' = [op |-> "updatePost", id |-> id, ret |-> FindIndex(posts, id) # 0]
    /\ UNCHANGED <<now, nextId, request, inflight, loginAttempts>>

BulkUpdatePosts ==
  \E ids \in BulkIds, updates \in UpdateRequests :
    /\ edits < MaxEdits
    /\ posts' = BulkUpdate(posts, ids, updates, now).store
    /\ edits' = edits + 1
    /\ call' = [op |-> "bulkUpdatePosts", ids |-> ids,
                ret |-> [updated |-> BulkUpdate(posts, ids, updates, now).updated,
                         failed |-> <<>>]]
    /\ UNCHANGED <<now, nextId, request, inflight, loginAttempts>>

BulkPublishPosts ==
  \E ids \in BulkIds, publish \in BOOLEAN :
    /\ edits < MaxEdits
    /\ posts' = BulkUpdate(posts, ids, PublishUpdate(publish), now).store
    /\ edits' = edits + 1
    /\ call' = [op |-> "bulkPublishPosts", ids |-> ids,
                ret |-> [updated |->
                           BulkUpdate(posts, ids, PublishUpdate(publish), now).updated,
                         failed |-> <<>>]]
    /\ UNCHANGED <<now, nextId, request, inflight, loginAttempts>>

PublishScheduledPosts ==
  LET due == {i \in 1..Len(posts) : ScheduleDue(posts[i], now)}
  IN  /\ posts' = IF due # {} THEN PublishDue(posts, now) ELSE posts
      /\ call' = [op |-> "publishScheduledPosts",
                  ret |-> [published |-> Cardinality(due), failed |-> <<>>]]
      /\ UNCHANGED <<now, nextId, edits, request, inflight, loginAttempts>>

(* a search that stamps the posts it returns as viewed *)
SearchPostsCall_StampsViewed ==
  /\ request.op = "searchPosts"
  /\ LET ret == SearchPosts(posts, now, request.query, request.filters)
     IN  /\ call' = [op |-> "searchPosts", query |-> request.query,
                     filters |-> request.filters, ret |-> ret]
         /\ posts' = [i \in 1..Len(posts) |->
                        IF posts[i] \in Range(ret.list)
                        THEN [posts[i] EXCEPT !.lastViewedAt = now]
                        ELSE posts[i]]
  /\ UNCHANGED <<now, nextId, edits, request, inflight, loginAttempts>>

(* a search whose result depends on the order in which the store is read *)
SearchPostsCall_UnorderedRead ==
  /\ request.op = "searchPosts"
  /\ \E all \in {posts, [i \in 1..Len(posts) |-> posts[Len(posts) + 1 - i]]} :
       call' = [op |-> "searchPosts", query |-> request.query,
                filters |-> request.filters,
                ret |-> SearchPosts(all, now, request.query, request.filters)]
  /\ UNCHANGED <<posts, now, nextId, edits, request, inflight, loginAttempts>>

SearchPostsCall ==
  /\ request.op = "searchPosts"
  /\ call' = [op |-> "searchPosts", query |-> request.query,
              filters |-> request.filters,
              ret |-> SearchPosts(posts, now, request.query, request.filters)]
  /\ UNCHANGED <<posts, now, nextId, edits, request, inflight, loginAttempts>>

GetRelatedPostsCall ==
  /\ request.op = "getRelatedPosts"
  /\ call' = [op |-> "getRelatedPosts", postId |-> request.postId,
              limit |-> request.limit,
              ret |-> GetRelatedPosts(posts, now, request.postId, request.limit)]
  /\ UNCHANGED <<posts, now, nextId, edits, request, inflight, loginAttempts>>

(* the store and its mutators *)
Next ==
  \/ Tick
  \/ CreatePost
  \/ UpdatePost
  \/ BulkUpdatePosts
  \/ BulkPublishPosts
  \/ PublishScheduledPosts
  \/ DeletePost
  \/ IncrementViewCount

Spec == Init /\ [][Next]_vars

(* the life cycle of posts: creation, edits, publication, deletion *)
NextLifecycle ==
  \/ Tick
  \/ CreatePost
  \/ UpdatePost
  \/ BulkUpdatePosts
  \/ BulkPublishPosts
  \/ PublishScheduledPosts
  \/ DeletePost

InitLifecycle ==
  /\ posts \in {StoreOf(st) : st \in {x \in SeedStores : Range(x) \subseteq EditedSeedIds}}
  /\ now = 31
  /\ nextId = FirstNewId
  /\ edits = 0
  /\ call = [op |-> "none"]
  /\ request = [op |-> "none"]
  /\ inflight = [p \in Procs |-> Idle]
  /\ loginAttempts = [identifier \in Identifiers |-> NoRecord]

SpecLifecycle == InitLifecycle /\ [][NextLifecycle]_vars

(* the counters of the posts under every store operation *)
NextCounters ==
  \/ CreatePost
  \/ UpdatePost
  \/ BulkUpdatePosts
  \/ BulkPublishPosts
  \/ PublishScheduledPosts
  \/ IncrementViewCount
  \/ IncrementLikeCount
  \/ IncrementCommentCount
  \/ DeletePost
  \/ BulkDeletePost

SpecCounters == InitLifecycle /\ [][NextCounters]_vars

----------------------------------------------------------------------------
(* Interleaved store operations.  Every operation awaits readPosts, works  *)
(* on the array it read and awaits writePosts of that whole array; other   *)
(* callers run at each await.  inflight[p] holds the operation of caller p *)
(* that is suspended at an await, with the array it will write.            *)

(* incrementViewCount up to its await of writePosts *)
ReadForIncrementViewCount ==
  \E p \in Procs, id \in PostIds :
    /\ inflight[p] = Idle
    /\ edits < MaxCalls
    /\ inflight' =
         [inflight EXCEPT ![p] =
            IF FindIndex(posts, id) = 0 THEN Idle
            ELSE [op |-> "incrementViewCount", id |-> id, pc |-> "write",
                  posts |-> [posts EXCEPT ![FindIndex(posts, id)].viewCount = @ + 1,
                                          ![FindIndex(posts, id)].lastViewedAt = now]]]
    /\ edits' = edits + 1
    /\ call' = [op |-> "readPosts", by |-> "incrementViewCount", proc |-> p,
                found |-> FindIndex(posts, id) # 0]
    /\ UNCHANGED <<posts, now, nextId, request, loginAttempts>>

(* updatePost up to its await of ensureUniqueSlug (title given) or of      *)
(* writePosts (no title)                                                   *)
ReadForUpdatePost ==
  \E p \in Procs, id \in PostIds, data \in UpdateRequests :
    /\ inflight[p] = Idle
    /\ edits < MaxCalls
    /\ inflight' =
         [inflight EXCEPT ![p] =
            IF FindIndex(posts, id) = 0 THEN Idle
            ELSE IF TruthyStr(data, "title")
            THEN [op |-> "updatePost", id |-> id, pc |-> "slug", posts |-> posts,
                  data |-> data, at |-> now]
            ELSE [op |-> "updatePost", id |-> id, pc |-> "write",
                  posts |-> UpdatePostIn(posts, id, data, now)]]
    /\ edits' = edits + 1
    /\ call' = [op |-> "readPosts", by |-> "updatePost", proc |-> p,
                found |-> FindIndex(posts, id) # 0]
    /\ UNCHANGED <<posts, now, nextId, request, loginAttempts>>

(* createPost up to its await of ensureUniqueSlug *)
ReadForCreatePost ==
  \E p \in Procs, data \in CreateRequests :
    /\ inflight[p] = Idle
    /\ edits < MaxCalls
    /\ nextId < FirstNewId + MaxCreates
    /\ inflight' = [inflight EXCEPT ![p] =
                      [op |-> "createPost", id |-> nextId, pc |-> "slug",
                       posts |-> posts, data |-> data, at |-> now]]
    /\ nextId' = nextId + 1
    /\ edits' = edits + 1
    /\ call' = [op |-> "readPosts", by |-> "createPost", proc |-> p, found |-> TRUE]
    /\ UNCHANGED <<posts, now, request, loginAttempts>>

(* ensureUniqueSlug reads the file again; the caller then builds its post  *)
(* into the array it read first and awaits writePosts                      *)
ReadForUniqueSlug ==
  \E p \in Procs :
    /\ inflight[p].op # "idle"
    /\ inflight[p].pc = "slug"
    /\ inflight' =
         [inflight EXCEPT ![p] =
            [op |-> @.op, id |-> @.id, pc |-> "write",
             posts |->
               IF @.op = "createPost"
               THEN Append(@.posts, NewPost(posts, @.data, @.at, @.id))
               ELSE [@.posts EXCEPT ![FindIndex(@.posts, inflight[p].id)] =
                       UpdatedPost(posts, inflight[p].posts[FindIndex(inflight[p].posts,
                                                                      inflight[p].id)],
                                   inflight[p].data, inflight[p].at)]]]
    /\ call' = [op |-> "readPosts", by |-> "ensureUniqueSlug", proc |-> p,
                found |-> TRUE]
    /\ UNCHANGED <<posts, now, nextId, edits, request, loginAttempts>>

(* writePosts(posts) of a suspended operation replaces the whole file *)
WritePosts ==
  \E p \in Procs :
    /\ inflight[p].op # "idle"
    /\ inflight[p].pc = "write"
    /\ posts' = inflight[p].posts
    /\ inflight' = [inflight EXCEPT ![p] = Idle]
    /\ call' = [op |-> "writePosts", by |-> inflight[p].op, proc |-> p,
                id |-> inflight[p].id]
    /\ UNCHANGED <<now, nextId, edits, request, loginAttempts>>

NextConcurrent ==
  \/ ReadForIncrementViewCount
  \/ ReadForUpdatePost
  \/ ReadForCreatePost
  \/ ReadForUniqueSlug
  \/ WritePosts

SpecConcurrent == InitLifecycle /\ [][NextConcurrent]_vars

----------------------------------------------------------------------------
(* Brute force protection: checkLoginAttempts, resetLoginAttempts,         *)
(* isLockedOut, lockoutLogin over the loginAttempts map.  Date.now() is    *)
(* the clock, in minutes.                                                  *)

MaxAttemptsInputs == {1, 2}

LockoutMinutes == {10, 30}

(* consecutive checkLoginAttempts calls made for the identifier so far *)
Streak(identifier) ==
  IF call.op = "checkLoginAttempts" /\ call.identifier = identifier
  THEN call.streak + 1 ELSE 1

CheckLoginAttempts ==
  \E identifier \in Identifiers, maxAttempts \in MaxAttemptsInputs :
    /\ edits < MaxCalls
    /\ edits' = edits + 1
    /\ IF loginAttempts[identifier] = NoRecord
          \/ now > loginAttempts[identifier].lockoutUntil
       THEN /\ loginAttempts' = [loginAttempts EXCEPT ![identifier] =
                                   [count |-> 1, lockoutUntil |-> 0]]
            /\ call' = [op |-> "checkLoginAttempts", identifier |-> identifier,
                        maxAttempts |-> maxAttempts, ret |-> TRUE,
                        streak |-> Streak(identifier)]
       ELSE IF loginAttempts[identifier].count >= maxAttempts
       THEN /\ loginAttempts' = loginAttempts
            /\ call' = [op |-> "checkLoginAttempts", identifier |-> identifier,
                        maxAttempts |-> maxAttempts, ret |-> FALSE,
                        streak |-> Streak(identifier)]
       ELSE /\ loginAttempts' = [loginAttempts EXCEPT ![identifier].count = @ + 1]
            /\ call' = [op |-> "checkLoginAttempts", identifier |-> identifier,
                        maxAttempts |-> maxAttempts, ret |-> TRUE,
                        streak |-> Streak(identifier)]
    /\ UNCHANGED <<posts, now, nextId, request, inflight>>

ResetLoginAttempts ==
  \E identifier \in Identifiers :
    /\ edits < MaxCalls
    /\ edits' = edits + 1
    /\ loginAttempts' = [loginAttempts EXCEPT ![identifier] = NoRecord]
    /\ call' = [op |-> "resetLoginAttempts", identifier |-> identifier]
    /\ UNCHANGED <<posts, now, nextId, request, inflight>>

IsLockedOut ==
  \E identifier \in Identifiers :
    /\ edits < MaxCalls
    /\ edits' = edits + 1
    /\ IF loginAttempts[identifier] = NoRecord
       THEN /\ loginAttempts' = loginAttempts
            /\ call' = [op |-> "isLockedOut", identifier |-> identifier, ret |-> 0]
       ELSE IF now > loginAttempts[identifier].lockoutUntil
       THEN /\ loginAttempts' = [loginAttempts EXCEPT ![identifier] = NoRecord]
            /\ call' = [op |-> "isLockedOut", identifier |-> identifier, ret |-> 0]
       ELSE /\ loginAttempts' = loginAttempts
            /\ call' = [op |-> "isLockedOut", identifier |-> identifier,
                        ret |-> loginAttempts[identifier].lockoutUntil - now]
    /\ UNCHANGED <<posts, now, nextId, request, inflight>>

LockoutLogin ==
  \E identifier \in Identifiers, minutes \in LockoutMinutes :
    /\ edits < MaxCalls
    /\ edits' = edits + 1
    /\ loginAttempts' = [loginAttempts EXCEPT ![identifier] =
                           [count |-> 999, lockoutUntil |-> now + minutes]]
    /\ call' = [op |-> "lockoutLogin", identifier |-> identifier]
    /\ UNCHANGED <<posts, now, nextId, request, inflight>>

InitLogin ==
  /\ posts = <<>>
  /\ now = 31
  /\ nextId = FirstNewId
  /\ edits = 0
  /\ request = [op |-> "none"]
  /\ call = [op |-> "none"]
  /\ inflight = [p \in Procs |-> Idle]
  /\ loginAttempts = [identifier \in Identifiers |-> NoRecord]

NextLogin ==
  \/ Tick
  \/ CheckLoginAttempts
  \/ ResetLoginAttempts
  \/ IsLockedOut
  \/ LockoutLogin

SpecLogin == InitLogin /\ [][NextLogin]_vars

(* searches over the stores that start-up, createPost and the clock produce *)
NextSearch ==
  \/ Tick
  \/ CreatePost
  \/ SearchPostsCall

SpecSearch == InitSearch /\ [][NextSearch]_vars

(* recommendations over the same stores *)
NextRelated ==
  \/ Tick
  \/ CreatePost
  \/ GetRelatedPostsCall

SpecRelated == InitRelated /\ [][NextRelated]_vars

(* both read calls over the same stores *)
InitRead ==
  /\ InitStore
  /\ request \in {[op |-> "searchPosts", query |-> q, filters |-> f] :
                    q \in Queries, f \in Filters}
                 \cup {[op |-> "getRelatedPosts", postId |-> id, limit |-> limit] :
                         id \in PostIds, limit \in Limits}

NextRead ==
  \/ Tick
  \/ CreatePost
  \/ SearchPostsCall
  \/ GetRelatedPostsCall

SpecRead == InitRead /\ [][NextRead]_vars

----------
(* Vocabulary of the properties *)

SearchCall == call.op = "searchPosts"

RelatedCall == call.op = "getRelatedPosts"

NonEmptyQuery(query) == \E i \in 1..Len(query) : ~IsSpace(query[i])

RankedSearch == SearchCall /\ NonEmptyQuery(call.query)

WellFormed(post) == \A k \in ScoredFields : Has(post, k)

(* the token occurs in one of the six searched fields of the post *)
Mentions(post, term) ==
  \/ \E k \in {"title", "category", "author", "excerpt", "content"} :
       Has(post, k) /\ Includes(ToLowerCase(post[k]), term)
  \/ Has(post, "tags") /\ TagIncludes(post, term)

MentionsAny(post, terms) == \E i \in 1..Len(terms) : Mentions(post, terms[i])

(* the post satisfies every non-text criterion of the filters *)
PassesFilters(p, f) ==
  /\ Has(f, "published") => p.published = f.published
  /\ TruthyStr(f, "author") =>
       Has(p, "author") /\ Includes(ToLowerCase(p.author), ToLowerCase(f.author))
  /\ TruthyStr(f, "category") =>
       Has(p, "category") /\ ToLowerCase(p.category) = ToLowerCase(f.category)
  /\ TruthyStr(f, "tag") => Has(p, "tags") /\ TagIncludes(p, ToLowerCase(f.tag))
  /\ Has(f, "status") => p.status = f.status
  /\ TruthyStr(f, "series") =>
       Has(p, "series") /\ Includes(ToLowerCase(p.series), ToLowerCase(f.series))
  /\ Has(f, "dateFrom") => p.createdAt >= f.dateFrom
  /\ Has(f, "dateTo") => p.createdAt <= f.dateTo
  /\ Has(f, "minViews") => p.viewCount >= f.minViews
  /\ Has(f, "excludeIds") => p.id \notin Range(f.excludeIds)

WithoutLimit(f) == [k \in DOMAIN f \ {"limit"} |-> f[k]]

----------------------------------------------------------------------------
(* C1: for a non-empty query, every post that searchPosts returns mentions *)
(* at least one query token in its title, tags, category, author, excerpt  *)
(* or content, whatever its age and view count.                            *)
C1_OnlyMatchingPostsReturned ==
  (RankedSearch /\ call.ret.ok) =>
    \A i \in 1..Len(call.ret.list) :
      MentionsAny(call.ret.list[i], SearchTerms(call.query))

(* C2: with a limit L, searchPosts returns exactly the first L entries of  *)
(* the ranked list that the same call without a limit returns.             *)
C2_LimitTruncatesRankedList ==
  (RankedSearch /\ TruthyNum(call.filters, "limit") /\ call.ret.ok) =>
    LET full == SearchPosts(posts, now, call.query, WithoutLimit(call.filters))
    IN  full.ok /\ call.ret.list = Take(full.list, call.filters.limit)

(* C3: for a non-empty query the returned list is ordered by descending    *)
(* total score and, among posts of equal score, by descending effective    *)
(* date (publishedAt if set, else createdAt).                              *)
C3_SortedByScoreThenDate ==
  (RankedSearch /\ call.ret.ok) =>
    LET list == call.ret.list
        terms == SearchTerms(call.query)
    IN  \A i, j \in 1..Len(list) :
          i < j =>
            \/ SearchScore(list[i], terms, now) > SearchScore(list[j], terms, now)
            \/ /\ SearchScore(list[i], terms, now) = SearchScore(list[j], terms, now)
               /\ EffectiveDate(list[i]) >= EffectiveDate(list[j])

C3_Witness ==
  /\ RankedSearch /\ call.ret.ok
  /\ \E i, j \in 1..Len(call.ret.list) :
       /\ i < j
       /\ SearchScore(call.ret.list[i], SearchTerms(call.query), now)
            = SearchScore(call.ret.list[j], SearchTerms(call.query), now)
       /\ EffectiveDate(call.ret.list[i]) > EffectiveDate(call.ret.list[j])
  /\ \E i, j \in 1..Len(call.ret.list) :
       SearchScore(call.ret.list[i], SearchTerms(call.query), now)
         > SearchScore(call.ret.list[j], SearchTerms(call.query), now)

----------------------------------------------------------------------------
(* Vocabulary of the recommender properties *)

Reference == GetPostById(posts, call.postId)

(* the valid, published curated related posts of the reference post *)
CuratedPosts(post) ==
  {p \in Range(posts) :
     /\ Has(post, "relatedPosts") /\ p.id \in Range(post.relatedPosts)
     /\ p.published /\ p.id # post.id}

Eligible(postId) == {p \in Range(posts) : p.published /\ p.id # postId}

(* C5: when the reference post has c valid, published curated related      *)
(* posts with 0 < c < limit, getRelatedPosts returns those c posts first,  *)
(* followed by up to limit - c posts of the automatic-similarity phase.    *)
C5_CuratedFirstThenAutomatic ==
  (RelatedCall /\ call.ret.ok /\ Reference # <<>>) =>
    LET curated == CuratedPosts(Reference[1])
        c == Cardinality(curated)
    IN  (0 < c /\ c < call.limit) =>
          /\ Len(call.ret.list) >= c
          /\ Len(call.ret.list) <= call.limit
          /\ {call.ret.list[i] : i \in 1..c} = curated

(* C6: every post returned by getRelatedPosts(postId, limit) is published  *)
(* and is not the reference post, in the curated and the automatic phase.  *)
C6_RelatedPublishedNotSelf ==
  (RelatedCall /\ call.ret.ok) =>
    \A i \in 1..Len(call.ret.list) :
      call.ret.list[i].published /\ call.ret.list[i].id # call.postId

C6_Witness ==
  /\ RelatedCall /\ call.ret.ok /\ call.ret.list # <<>>
  /\ Reference # <<>>
  /\ call.postId \in Range(Reference[1].relatedPosts)
  /\ \E p \in Range(posts) :
       ~p.published /\ p.id \in Range(Reference[1].relatedPosts)
  /\ Len(CuratedPhase(posts, Reference[1], call.limit).filtered) >= call.limit

(* C7: getRelatedPosts(postId, limit) returns at most limit posts, for     *)
(* every store, every reference post and every limit >= 1.                 *)
C7_AtMostLimit ==
  (RelatedCall /\ call.ret.ok) => Len(call.ret.list) <= call.limit

C7_Witness ==
  /\ RelatedCall /\ call.ret.ok
  /\ Len(call.ret.list) = call.limit
  /\ Cardinality(Eligible(call.postId)) > call.limit

(* C8: searchPosts on a store in which a candidate lacks an expected text  *)
(* field completes without raising and still ranks every other candidate.  *)
C8_MissingFieldTolerated ==
  (/\ RankedSearch
   /\ \A i \in 1..Len(SearchTerms(call.query)) : RegExpValid(SearchTerms(call.query)[i])
   /\ \E p \in Range(posts) : ~WellFormed(p)) =>
    /\ call.ret.ok
    /\ (~Has(call.filters, "limit") /\ ~Has(call.filters, "offset")) =>
         LET sound == Keep(posts, {i \in 1..Len(posts) : WellFormed(posts[i])})
         IN  Range(SearchPosts(sound, now, call.query, call.filters).list)
               \subseteq Range(call.ret.list)

(* C9: searchPosts returns a list and never raises for any query string    *)
(* over well-formed posts, including queries whose tokens contain regular- *)
(* expression metacharacters.                                              *)
C9_NeverRaises ==
  (SearchCall /\ \A p \in Range(posts) : WellFormed(p)) => call.ret.ok

(* C10: for an empty or whitespace-only query searchPosts returns exactly  *)
(* what getPosts returns for the same filters: filtered, sorted by the     *)
(* requested field (default createdAt descending) and paginated, with no   *)
(* scoring pass and no zero-score exclusion.                               *)
C10_EmptyQueryDelegates ==
  (SearchCall /\ ~NonEmptyQuery(call.query)) =>
    /\ call.ret = GetPosts(posts, call.filters)
    /\ LET list == call.ret.list
           f == call.filters
           field == IF Has(f, "sortBy") THEN f.sortBy ELSE "createdAt"
       IN  \A i, j \in 1..Len(list) :
             i < j =>
               IF Has(f, "sortOrder") /\ f.sortOrder = "asc"
               THEN SortValue(list[i], field) <= SortValue(list[j], field)
               ELSE SortValue(list[i], field) >= SortValue(list[j], field)

C10_Witness ==
  /\ SearchCall /\ ~NonEmptyQuery(call.query) /\ call.query # <<>>
  /\ call.ret.ok /\ Len(call.ret.list) >= 2
  /\ \E i \in 1..Len(call.ret.list) : SearchScore(call.ret.list[i], <<>>, now) = 0

----------------------------------------------------------------------------
(* Vocabulary of the scoring properties *)

(* number of positions of s at which the token occurs *)
Occurrences(s, term) == Cardinality({i \in 1..Len(s) : MatchesAt(s, term, i)})

(* the posts a ranked search can score without raising *)
Scorable(terms) == {p \in Range(posts) : WellFormed(p) /\ ~ScoreThrows(p, terms)}

(* C11: for every post a ranked search scores and returns, and for each    *)
(* query token, the title contributes exactly one of 100                   *)
(* (equals the token), 50 (starts with it, not equal), 30 (contains it,   *)
(* does not start with it) or 0, never a sum of tiers; the category        *)
(* contributes exactly one of 20 (equals), 10 (contains, not equal) or 0.  *)
C11_TitleAndCategoryTiersExclusive ==
  (RankedSearch /\ call.ret.ok) =>
    \A p \in Range(call.ret.list) :
      \A term \in Range(SearchTerms(call.query)) :
        \A title \in {ToLowerCase(p.title)}, category \in {ToLowerCase(p.category)} :
          /\ TitlePoints(p, term) \in {0, 30, 50, 100}
          /\ TitlePoints(p, term) = 100 <=> title = term
          /\ TitlePoints(p, term) = 50 <=> (StartsWith(title, term) /\ title # term)
          /\ TitlePoints(p, term) = 30 <=>
               (Includes(title, term) /\ ~StartsWith(title, term))
          /\ CategoryPoints(p, term) \in {0, 10, 20}
          /\ CategoryPoints(p, term) = 20 <=> category = term
          /\ CategoryPoints(p, term) = 10 <=>
               (Includes(category, term) /\ category # term)

C11_Witness ==
  /\ RankedSearch /\ call.ret.ok
  /\ \E p \in Range(call.ret.list) :
       \E i \in 1..Len(SearchTerms(call.query)) :
         /\ ToLowerCase(p.title) = SearchTerms(call.query)[i]
         /\ ToLowerCase(p.category) = SearchTerms(call.query)[i]
  /\ \E p \in Range(call.ret.list) :
       \E i \in 1..Len(SearchTerms(call.query)) :
         /\ Includes(ToLowerCase(p.category), SearchTerms(call.query)[i])
         /\ ToLowerCase(p.category) # SearchTerms(call.query)[i]

(* C12: a token that occurs n >= 1 times in the lowercased excerpt adds    *)
(* 10 + 2 * (n - 1) points: 10 for one occurrence, 2 more for each         *)
(* additional one.                                                         *)
C12_ExcerptTenPlusTwoPerExtra ==
  RankedSearch =>
    \A terms \in {SearchTerms(call.query)} :
      \A p \in Scorable(terms), term \in Range(terms) :
        \A n \in {Occurrences(ToLowerCase(p.excerpt), term)} :
          (n >= 1 /\ RegExpValid(term)) =>
            ExcerptPoints(p, term) = 10 + 2 * (n - 1)

(* C13: the popularity bonus equals min(viewCount / 100, 5) for every      *)
(* non-negative viewCount (in hundredths of a point: min(viewCount, 500)). *)
C13_PopularityLinearFromZero ==
  RankedSearch =>
    \A p \in Scorable(SearchTerms(call.query)) :
      PopularityBonus(p) = Min(p.viewCount, 500)

(* C14: the total score of every post a ranked search returns is the sum   *)
(* over the query tokens of the six signal                                 *)
(* points (tags at 25 per matching tag) plus the recency bonus (+5 when    *)
(* the effective date is less than 30 days old) and the popularity bonus,  *)
(* each bonus counted once per post whatever the number of tokens.         *)
C14_ScoreSumsTokensBonusesOnce ==
  (RankedSearch /\ call.ret.ok) =>
    \A terms \in {SearchTerms(call.query)} :
      \A p \in Range(call.ret.list) :
        \A bonuses \in {SearchScore(p, <<>>, now)} :
          /\ bonuses = (IF now - EffectiveDate(p) < 30 THEN 500 ELSE 0)
                         + PopularityBonus(p)
          /\ \A n \in 1..Len(terms) :
               \A tokenScore \in {SearchScore(p, <<terms[n]>>, now) - bonuses} :
                 /\ tokenScore =
                      100 * ( TitlePoints(p, terms[n])
                            + 25 * Cardinality({t \in 1..Len(p.tags) :
                                     Includes(ToLowerCase(p.tags[t]), terms[n])})
                            + CategoryPoints(p, terms[n]) + AuthorPoints(p, terms[n])
                            + ExcerptPoints(p, terms[n]) + ContentPoints(p, terms[n]) )
                 /\ SearchScore(p, Take(terms, n), now) =
                      SearchScore(p, Take(terms, n - 1), now) + tokenScore

C14_Witness ==
  /\ RankedSearch /\ call.ret.ok
  /\ Len(SearchTerms(call.query)) >= 2
  /\ \E p \in Range(call.ret.list) :
       /\ \A i \in 1..Len(SearchTerms(call.query)) :
            TermPoints(p, SearchTerms(call.query)[i]) > 0
       /\ RecencyBonus(p, now) > 0
  /\ \E p \in Range(call.ret.list) : PopularityBonus(p) > 0

----------------------------------------------------------------------------
(* C15: when the reference post has at least limit valid, published        *)
(* curated related posts, getRelatedPosts returns exactly limit posts and  *)
(* every one of them is in the reference post's relatedPosts list.         *)
C15_EnoughCuratedOnlyCurated ==
  (/\ RelatedCall /\ Reference # <<>>
   /\ Cardinality(CuratedPosts(Reference[1])) >= call.limit) =>
      /\ call.ret.ok
      /\ Len(call.ret.list) = call.limit
      /\ \A i \in 1..Len(call.ret.list) :
           call.ret.list[i].id \in Range(Reference[1].relatedPosts)

C15_Witness ==
  /\ RelatedCall /\ call.ret.ok /\ Reference # <<>>
  /\ Cardinality(CuratedPosts(Reference[1])) >= call.limit
  /\ Eligible(call.postId) \ CuratedPosts(Reference[1]) # {}

(* C16: getRelatedPosts called with a postId that is not in the store      *)
(* returns an empty list and raises no error.                              *)
C16_UnknownPostGivesEmptyList ==
  (RelatedCall /\ Reference = <<>>) => (call.ret.ok /\ call.ret.list = <<>>)

C16_Witness ==
  /\ RelatedCall /\ Reference = <<>>
  /\ \E p \in Range(posts) : p.published
  /\ call.ret.ok

(* C17: searchPosts and getRelatedPosts never write to the post store:     *)
(* across either call every stored post and the set of stored posts are    *)
(* unchanged.                                                              *)
C17_ReadsLeaveStoreUnchanged ==
  [][(call'.op \in {"searchPosts", "getRelatedPosts"}) => posts' = posts]_vars

C17_Witness ==
  /\ SearchCall \/ RelatedCall
  /\ call.ret.ok /\ call.ret.list # <<>>
  /\ Len(posts) >= 2
  /\ Range(call.ret.list) # Range(posts)

----------------------------------------------------------------------------
(* Vocabulary of the life-cycle properties *)

EditCall == call.op \in {"updatePost", "bulkUpdatePosts", "bulkPublishPosts"}

(* C19: in every state reachable by createPost, updatePost,                *)
(* bulkUpdatePosts, bulkPublishPosts and publishScheduledPosts calls,      *)
(* every post with published = true has a non-null publishedAt.            *)
C19_PublishedHasPublishedAt ==
  \A i \in 1..Len(posts) : posts[i].published => posts[i].publishedAt # Null

(* C20: after any sequence of createPost, updatePost, bulkUpdatePosts and  *)
(* deletePost calls run one after another, no two posts in the store have  *)
(* the same slug.                                                          *)
C20_SlugsUnique ==
  \A i, j \in 1..Len(posts) : i # j => posts[i].slug # posts[j].slug

C20_Witness ==
  /\ call.op \in {"updatePost", "bulkUpdatePosts"}
  /\ edits > 0
  /\ \E i, j \in 1..Len(posts) :
       /\ i # j
       /\ posts[i].title = posts[j].title
       /\ posts[i].updatedAt > posts[i].createdAt
       /\ posts[i].slug # GenerateSlug(posts[i].title)

(* C21: over any sequence of operations other than deletion the viewCount, *)
(* likeCount and commentCount of a stored post never decrease: no step     *)
(* lowers a counter of a post that stays in the store.                     *)
C21_CountsNeverDecrease ==
  [][\A i \in 1..Len(posts), j \in 1..Len(posts') :
       posts'[j].id = posts[i].id =>
         /\ posts'[j].viewCount >= posts[i].viewCount
         /\ posts'[j].likeCount >= posts[i].likeCount
         /\ posts'[j].commentCount >= posts[i].commentCount]_vars

C21_Witness ==
  /\ EditCall
  /\ \E i \in 1..Len(posts) :
       /\ posts[i].updatedAt > posts[i].createdAt
       /\ posts[i].viewCount > 0

(* C22: bulkDeletePost(ids) removes exactly the posts whose id is in ids,  *)
(* returns deleted = the number of posts removed and failed = exactly the  *)
(* requested ids that were not in the store.                               *)
C22_BulkDeleteReportsMissingIds ==
  [][call'.op = "bulkDeletePost" =>
       /\ posts' = Keep(posts, {i \in 1..Len(posts) :
                                  posts[i].id \notin Range(call'.ids)})
       /\ call'.ret.deleted = Len(posts) - Len(posts')
       /\ call'.ret.failed =
            Keep(call'.ids, {k \in 1..Len(call'.ids) :
                               FindIndex(posts, call'.ids[k]) = 0})]_vars

(* C23: createPost publishes immediately (published = true, publishedAt    *)
(* non-null) whenever the request asks for publication, by published: true *)
(* or by status 'published', and no future scheduledPublishAt blocks it;   *)
(* in every other case the post is created unpublished with publishedAt    *)
(* null.                                                                   *)
C23_CreatePublishesWhenAsked ==
  [][\A data \in CreateRequests :
       (/\ call'.op = "createPost"
        /\ posts' = Append(posts, NewPost(posts, data, now, nextId))) =>
         IF /\ \/ Has(data, "published") /\ data.published
               \/ Has(data, "status") /\ data.status = "published"
            /\ ~(HasDate(data, "scheduledPublishAt") /\ data.scheduledPublishAt > now)
         THEN /\ posts'[Len(posts')].published
              /\ posts'[Len(posts')].publishedAt # Null
         ELSE /\ ~posts'[Len(posts')].published
              /\ posts'[Len(posts')].publishedAt = Null]_vars

(* C24: updatePost, deletePost, incrementViewCount, incrementLikeCount and *)
(* incrementCommentCount called with an id that is not in the store return *)
(* null (updatePost) or false (the others) and leave the store unchanged.  *)
C24_UnknownIdLeavesStore ==
  [][(/\ call'.op \in {"updatePost", "deletePost", "incrementViewCount",
                       "incrementLikeCount", "incrementCommentCount"}
      /\ FindIndex(posts, call'.id) = 0) =>
       (posts' = posts /\ call'.ret = FALSE)]_vars

C24_Witness ==
  /\ call.op \in {"updatePost", "incrementViewCount", "incrementLikeCount",
                  "incrementCommentCount"}
  /\ call.ret = FALSE
  /\ posts # <<>>
  /\ edits > 0

(* a stored post that waits for its publication time *)
PendingSchedule(post, t) ==
  /\ post.status = "published" /\ ~post.published
  /\ HasDate(post, "scheduledPublishAt")
  /\ post.scheduledPublishAt > t

(* C27: a post with status 'published' and a scheduledPublishAt in the     *)
(* future is not published before that time: an updatePost call that does  *)
(* not change status, schedule or the published flag leaves it unpublished *)
(* with publishedAt null.                                                  *)
C27_UpdateKeepsScheduleWaiting ==
  [][\A id \in PostIds, data \in UpdateRequests :
       (/\ call'.op = "updatePost" /\ call'.id = id
        /\ posts' = UpdatePostIn(posts, id, data, now)
        /\ DOMAIN data \cap {"status", "scheduledPublishAt", "published"} = {}) =>
         \A i \in 1..Len(posts) :
           PendingSchedule(posts[i], now) =>
             (~posts'[i].published /\ posts'[i].publishedAt = Null)]_vars

(* a stored post whose publication time has passed *)
DueSchedule(post, t) ==
  /\ post.status = "published" /\ ~post.published
  /\ HasDate(post, "scheduledPublishAt")
  /\ post.scheduledPublishAt <= t

(* C28: once the scheduledPublishAt of a stored post with status           *)
(* 'published' and published = false has passed, the next                  *)
(* publishScheduledPosts call publishes it with publishedAt =              *)
(* scheduledPublishAt and counts it in the returned total, also for posts  *)
(* read back from the JSON store; posts that are not due are unchanged.    *)
C28_DuePostsArePublished ==
  [][call'.op = "publishScheduledPosts" =>
       /\ Len(posts') = Len(posts)
       /\ \A i \in 1..Len(posts) :
            IF DueSchedule(posts[i], now)
            THEN /\ posts'[i].published
                 /\ posts'[i].publishedAt = posts[i].scheduledPublishAt
            ELSE posts'[i] = posts[i]
       /\ call'.ret.published =
            Cardinality({i \in 1..Len(posts) : DueSchedule(posts[i], now)})]_vars

WithoutOffset(f) == [k \in DOMAIN f \ {"offset"} |-> f[k]]

(* C25: for a non-empty query no offset is applied to the candidate set:   *)
(* the ranked result of searchPosts does not depend on filters.offset, it  *)
(* is the result of the same call without the offset.                      *)
C25_OffsetIgnoredWhenRanking ==
  (RankedSearch /\ Has(call.filters, "offset") /\ call.ret.ok) =>
    call.ret = SearchPosts(posts, now, call.query, WithoutOffset(call.filters))

(* the similarity score as the scoring table states it, in hundredths *)
StatedSimilarity(cand, post, t) ==
  (IF SameField(cand, post, "category") THEN 3000 ELSE 0)
  + SharedTags(cand, post) * 2000
  + (IF SameField(cand, post, "author") THEN 1000 ELSE 0)
  + (IF Has(cand, "series") /\ Has(post, "series")
        /\ cand.series = post.series /\ cand.series # <<>> THEN 2500 ELSE 0)
  + (IF t - EffectiveDate(cand) < 30 THEN 500 ELSE 0)
  + Min(cand.viewCount, 1000)

(* the call went through the automatic phase *)
AutomaticCall ==
  /\ RelatedCall /\ call.ret.ok /\ Reference # <<>>
  /\ \A c \in {CuratedPhase(posts, Reference[1], call.limit)} :
       ~(c.entered /\ Len(c.filtered) >= call.limit)

(* the pool of candidates the automatic phase fetched *)
FetchedPool ==
  LET left == call.limit - Len(CuratedPhase(posts, Reference[1], call.limit).filtered)
  IN  Range(GetPosts(posts, [published |-> TRUE, excludeIds |-> <<call.postId>>,
                             limit |-> left * 3]).list)

(* C26: in the automatic phase getRelatedPosts returns its candidates in   *)
(* descending order of the similarity score 30 (category) + 20 per shared  *)
(* tag + 10 (author) + 25 (series) + 5 (younger than 30 days) +            *)
(* min(viewCount / 100, 10), and the returned candidates are the           *)
(* highest-scoring ones of the fetched pool.                               *)
C26_AutomaticOrderedByStatedScore ==
  AutomaticCall =>
    \A ref \in {Reference[1]}, pool \in {FetchedPool} :
      /\ \A cand \in pool :
           SimilarityScore(cand, ref, now) = StatedSimilarity(cand, ref, now)
      /\ \A i, j \in 1..Len(call.ret.list) :
           i < j => StatedSimilarity(call.ret.list[i], ref, now)
                      >= StatedSimilarity(call.ret.list[j], ref, now)
      /\ \A cand \in pool \ Range(call.ret.list), i \in 1..Len(call.ret.list) :
           StatedSimilarity(call.ret.list[i], ref, now)
             >= StatedSimilarity(cand, ref, now)

(* C29: when store-mutating operations interleave, no completed            *)
(* operation's effect is lost: the write that completes an operation keeps *)
(* every stored post and lowers none of its view counts, and the write     *)
(* that completes an incrementViewCount leaves the stored viewCount one    *)
(* above what it was (two concurrent increments add 2).                    *)
C29_NoCompletedEffectLost ==
  [][\A p \in Procs :
       (/\ inflight[p].op # "idle"
        /\ inflight[p].pc = "write"
        /\ inflight'[p] = Idle
        /\ posts' = inflight[p].posts) =>
         /\ \A i \in 1..Len(posts) :
              \E j \in 1..Len(posts') :
                /\ posts'[j].id = posts[i].id
                /\ posts'[j].viewCount >= posts[i].viewCount
         /\ inflight[p].op = "incrementViewCount" =>
              \A i \in 1..Len(posts) :
                posts[i].id = inflight[p].id =>
                  \E j \in 1..Len(posts') :
                    /\ posts'[j].id = posts[i].id
                    /\ posts'[j].viewCount = posts[i].viewCount + 1]_vars

(* C30: checkLoginAttempts(identifier, maxAttempts) enforces the attempt   *)
(* cap: a call that follows maxAttempts or more calls for the same         *)
(* identifier, with no resetLoginAttempts and no passage of time in        *)
(* between, returns false.                                                 *)
C30_AttemptCapEnforced ==
  (call.op = "checkLoginAttempts" /\ call.streak > call.maxAttempts) => ~call.ret

====
